---- MODULE Spec2Model ----
(***************************************************************************)
(* Model of agents/scraper.py, class UniversalJobScraperV73: the crawl of  *)
(* one careers page (scrape_single_url), the retrying page fetch           *)
(* (scrape_with_retry), pagination discovery (detect_pagination) and the   *)
(* candidate link extraction (find_universal_jobs).                        *)
(*                                                                         *)
(* Text is modelled as a sequence of symbols (naturals); the symbol Sep is *)
(* the character "_".  A page URL of the listing is a natural, 0 being the *)
(* URL the scrape was started with.                                        *)
(***************************************************************************)
EXTENDS Integers, Sequences, FiniteSets, TLC

\* ---------------------------------------------------------------- bounds
\* number of job anchors on a full listing page of the modelled sites
PageSize == 8
\* largest number of listing pages of a modelled site
MaxListPages == 3
\* number of fetch attempts the environment may make fail in one scrape
MaxFaults == 3
\* largest number of numbered pagination links on a modelled list page
MaxNumbered == 21
\* number of listing pages of the one deep site of the model
DeepPages == 17
\* largest number of words after the title in a modelled context text
MaxWords == 2
\* largest number of email matches in a modelled first page
MaxMatches == 3

\* ------------------------------------------------------ program constants
MAX_JOBS_Bumped == 15 + 1
MAX_JOBS == 15
max_retries_Short == 3 - 1
max_retries == 3
\* page_urls[:15]
MaxPagesReturned == 15
\* len(page_urls) < 20
MaxPagesCollected == 20
\* number of entries of next_selectors
NumNextSelectors == 5

\* ---------------------------------------------------------------- helpers
Min(a, b) == IF a <= b THEN a ELSE b

Range(s) == {s[i] : i \in 1..Len(s)}

RECURSIVE Pow2(_)
Pow2(n) == IF n = 0 THEN 1 ELSE 2 * Pow2(n - 1)

Prefix(s, n) == SubSeq(s, 1, Min(n, Len(s)))

\* the character "_" of the f-string f"{title}_{url}"
Sep == 0

\* ------------------------------------------------------- detect_pagination
\* An element of the page is [match, has_href, target, paged]: whether the
\* selector matched, whether the element carries a non-empty href, the
\* absolute URL the href resolves to against the base URL, and whether
\* the href text matches from=\d+|page=\d+.
NoElement == [match |-> FALSE, has_href |-> FALSE, target |-> 0, paged |-> FALSE]

Link(t, p) == [match |-> TRUE, has_href |-> TRUE, target |-> t, paged |-> p]

\* urljoin(base_url, href): the href's resolved absolute URL
UrlJoin(base_url, elem) == elem.target

RECURSIVE NextLoop(_, _, _, _)
NextLoop(soup, base_url, s, page_urls) ==
    IF s > NumNextSelectors THEN page_urls
    ELSE LET next_link == soup.next[s]
             next_url  == UrlJoin(base_url, next_link)
         IN  IF next_link.match /\ next_link.has_href /\ next_url \notin Range(page_urls)
             THEN NextLoop(soup, base_url, s + 1, Append(page_urls, next_url))
             ELSE NextLoop(soup, base_url, s + 1, page_urls)

RECURSIVE NumberedLoop(_, _, _, _)
NumberedLoop(soup, base_url, i, page_urls) ==
    IF i > Len(soup.numbered) THEN page_urls
    ELSE LET link     == soup.numbered[i]
             full_url == UrlJoin(base_url, link)
         IN  IF link.has_href /\ link.paged
                /\ full_url \notin Range(page_urls)
                /\ Len(page_urls) < MaxPagesCollected
             THEN NumberedLoop(soup, base_url, i + 1, Append(page_urls, full_url))
             ELSE NumberedLoop(soup, base_url, i + 1, page_urls)

\* page_urls as it stands before the final slice
CollectPages(soup, base_url) ==
    NumberedLoop(soup, base_url, 1, NextLoop(soup, base_url, 1, <<base_url>>))

DetectPaginationUncut(soup, base_url) == CollectPages(soup, base_url)

DetectPagination(soup, base_url) ==
    Prefix(CollectPages(soup, base_url), MaxPagesReturned)

\* ----------------------------------------------------- find_universal_jobs
\* An anchor is [title, url, kind, context]: kind "job" passes every filter;
\* "fragment" is an href starting with # or holding javascript, "nav" a
\* title of the wrong length or holding an INVALID_TITLES label, "other" a
\* URL that matches none of JOB_URL_PATTERNS.
RECURSIVE FindFrom(_, _, _, _)
FindFrom(anchors, i, seen_urls, jobs) ==
    IF i > Len(anchors) THEN jobs
    ELSE LET a == anchors[i]
         IN  IF a.kind = "job" /\ a.url \notin seen_urls
             THEN FindFrom(anchors, i + 1, seen_urls \cup {a.url},
                           Append(jobs, [title |-> a.title, url |-> a.url,
                                         context |-> a.context]))
             ELSE FindFrom(anchors, i + 1, seen_urls, jobs)

FindUniversalJobs(anchors) == FindFrom(anchors, 1, {}, <<>>)

\* hashlib.md5(f"{title}_{url}").hexdigest(): the digest is taken to be
\* one-to-one on the strings of the model, so it is the hashed string
JobHashUrlOnly(title, url) == url

JobHash(title, url) == title \o <<Sep>> \o url

\* --------------------------------------------------------- clean_location
\* Text of clean_location is a sequence of characters.
Uppers == <<"A", "B", "C", "D", "E", "F", "G", "H", "I", "J", "K", "L", "M",
            "N", "O", "P", "Q", "R", "S", "T", "U", "V", "W", "X", "Y", "Z">>

Lowers == <<"a", "b", "c", "d", "e", "f", "g", "h", "i", "j", "k", "l", "m",
            "n", "o", "p", "q", "r", "s", "t", "u", "v", "w", "x", "y", "z">>

Digits == {"0", "1", "2", "3", "4", "5", "6", "7", "8", "9"}

\* str.lower() and re.IGNORECASE on one character
Lower(c) ==
    IF \E i \in 1..Len(Uppers) : Uppers[i] = c
    THEN Lowers[CHOOSE i \in 1..Len(Uppers) : Uppers[i] = c]
    ELSE c

ToLower(text) == [i \in 1..Len(text) |-> Lower(text[i])]

\* the literal pat matches text at place i, whatever the case
MatchAt(text, i, pat) ==
    /\ i + Len(pat) - 1 <= Len(text)
    /\ \A k \in 1..Len(pat) : Lower(text[i + k - 1]) = Lower(pat[k])

\* re.search of a literal, re.IGNORECASE
ContainsCI(text, pat) == \E i \in 1..Len(text) : MatchAt(text, i, pat)

\* line 90: re.sub(re.escape(title), '', text, flags=re.IGNORECASE)
RECURSIVE SubLiteral(_, _, _)
SubLiteral(text, pat, i) ==
    IF i > Len(text) THEN << >>
    ELSE IF Len(pat) > 0 /\ MatchAt(text, i, pat)
         THEN SubLiteral(text, pat, i + Len(pat))
         ELSE <<text[i]>> \o SubLiteral(text, pat, i + 1)

\* the words of clean_location
WLocation == <<"L", "o", "c", "a", "t", "i", "o", "n">>

WPune == <<"P", "u", "n", "e">>

WFallon == <<"f", "a", "l", "l", "o", "n">>

WOFallon == <<"O", " ", "F", "a", "l", "l", "o", "n">>

WNotSpecified == <<"N", "o", "t", " ", "S", "p", "e", "c", "i", "f", "i", "e", "d">>

WIndiaLower == <<"i", "n", "d", "i", "a">>

\* \s* from place j on: the first place it does not match
RECURSIVE SkipSpaces(_, _)
SkipSpaces(text, j) ==
    IF j <= Len(text) /\ text[j] = " " THEN SkipSpaces(text, j + 1) ELSE j

\* the length of what (Location|in|at) matches at place i, 0 when nothing
LabelAt(text, i) ==
    IF MatchAt(text, i, WLocation) THEN Len(WLocation)
    ELSE IF MatchAt(text, i, <<"i", "n">>) THEN 2
    ELSE IF MatchAt(text, i, <<"a", "t">>) THEN 2
    ELSE 0

\* [:\s]* from place j on: the first place it does not match
RECURSIVE SkipSeparators(_, _)
SkipSeparators(text, j) ==
    IF j <= Len(text) /\ text[j] \in {":", " "}
    THEN SkipSeparators(text, j + 1)
    ELSE j

\* line 91: re.sub(r'(Location|in|at)[:\s]*', '', clean_text, flags=re.IGNORECASE)
RECURSIVE SubLabels(_, _)
SubLabels(text, i) ==
    IF i > Len(text) THEN << >>
    ELSE IF LabelAt(text, i) > 0
         THEN SubLabels(text, SkipSeparators(text, i + LabelAt(text, i)))
         ELSE <<text[i]>> \o SubLabels(text, i + 1)

\* re.sub(r'\s+', ' ', clean_text)
RECURSIVE Collapse(_, _)
Collapse(text, i) ==
    IF i > Len(text) THEN << >>
    ELSE IF text[i] = " " /\ i > 1 /\ text[i - 1] = " "
         THEN Collapse(text, i + 1)
         ELSE <<text[i]>> \o Collapse(text, i + 1)

\* str.strip() of a text without runs of spaces
Strip(text) ==
    LET a == IF Len(text) > 0 /\ text[1] = " " THEN 2 ELSE 1
        b == IF Len(text) > 0 /\ text[Len(text)] = " " THEN Len(text) - 1 ELSE Len(text)
    IN  IF a > b THEN << >> ELSE SubSeq(text, a, b)

\* lines 90-92
CleanText(text, title) ==
    Strip(Collapse(SubLabels(SubLiteral(text, title, 1), 1), 1))

\* line 95: re.search(r'pune|4110\d{2}', clean_text, re.IGNORECASE)
IsPune(clean_text) ==
    \/ ContainsCI(clean_text, WPune)
    \/ \E i \in 1..Len(clean_text) :
          /\ MatchAt(clean_text, i, <<"4", "1", "1", "0">>)
          /\ i + 5 <= Len(clean_text)
          /\ clean_text[i + 4] \in Digits /\ clean_text[i + 5] \in Digits

\* line 102: re.search(r'o\s*fallon|63368', clean_text, re.IGNORECASE)
IsOFallon(clean_text) ==
    \/ \E i \in 1..Len(clean_text) :
          /\ Lower(clean_text[i]) = "o"
          /\ MatchAt(clean_text, SkipSpaces(clean_text, i + 1), WFallon)
    \/ ContainsCI(clean_text, <<"6", "3", "3", "6", "8">>)

\* lines 95-116: city, state and country of the returned dict
Classify(clean_text) ==
    IF IsPune(clean_text)
    THEN [city |-> WPune, state |-> "Maharashtra", country |-> "India"]
    ELSE IF IsOFallon(clean_text)
    THEN [city |-> WOFallon, state |-> "Missouri", country |-> "United States of America"]
    ELSE IF ContainsCI(ToLower(clean_text), WIndiaLower)
    THEN [city |-> Prefix(clean_text, 50), state |-> "Maharashtra", country |-> "India"]
    ELSE [city |-> IF clean_text # << >> THEN Prefix(clean_text, 50) ELSE WNotSpecified,
          state |-> "None", country |-> "Not Specified"]

CleanLocation(text, title) == Classify(CleanText(text, title))

\* ------------------------------------------------------------------ sites
\* the text of title number k
JobTitle(k) == <<900 + k>>

JobAnchor(i) == [title |-> JobTitle(0), url |-> <<i>>, kind |-> "job", context |-> i]

\* A listing page kind: "A" and "B" are full pages of distinct jobs, "M" a
\* page with navigation links, a job of page "A" again, one URL under two
\* titles, and two jobs whose title and URL differ but concatenate alike,
\* "E" a page without any anchor.
PageKinds == {"A", "B", "M", "E"}

PageAnchors(kind) ==
    CASE kind = "A" -> [i \in 1..PageSize |-> JobAnchor(i)]
      [] kind = "B" -> [i \in 1..PageSize |-> JobAnchor(PageSize + i)]
      [] kind = "M" ->
           << JobAnchor(1),
              [title |-> JobTitle(0), url |-> <<700>>, kind |-> "fragment", context |-> 700],
              [title |-> JobTitle(0), url |-> <<701>>, kind |-> "nav", context |-> 701],
              [title |-> JobTitle(0), url |-> <<702>>, kind |-> "other", context |-> 702],
              JobAnchor(600),
              [title |-> JobTitle(1), url |-> <<600>>, kind |-> "job", context |-> 600],
              [title |-> JobTitle(0), url |-> <<801, Sep, 802>>, kind |-> "job", context |-> 801],
              [title |-> JobTitle(0) \o <<Sep, 801>>, url |-> <<802>>, kind |-> "job", context |-> 802],
              [title |-> JobTitle(1), url |-> <<1>>, kind |-> "job", context |-> 1] >>
      [] OTHER -> << >>

\* A site is the sequence of the kinds of its listing pages; page URL u
\* (0 is the start URL) serves the anchors of kind site[u + 1].
\* a site with more listing pages than detect_pagination returns: two full
\* pages, then empty ones
DeepSite == [i \in 1..DeepPages |-> IF i = 1 THEN "A" ELSE IF i = 2 THEN "B" ELSE "E"]

Sites == UNION {[1..n -> PageKinds] : n \in 1..MaxListPages} \cup {DeepSite}

PageContent(s, page_url) == PageAnchors(s[page_url + 1])

\* the pagination elements of the first page: a "next" link matched by two of
\* the selectors and one numbered link per listing page
FirstSoup(s) ==
    [next |-> [k \in 1..NumNextSelectors |->
                 IF Len(s) > 1 /\ k \in {1, 3} THEN Link(1, TRUE) ELSE NoElement],
     numbered |-> IF Len(s) > 1 THEN [i \in 1..Len(s) |-> Link(i - 1, TRUE)] ELSE << >>]

\* whether the detail page of a job URL has a main-content container
HasMain(url) == url[1] % 2 = 0

\* ------------------------------------------------------------------ state
VARIABLES
    site,             \* the site behind the start URL (input)
    pc,               \* position of scrape_single_url
    started,          \* number of crawler.start() calls that succeeded
    closed,           \* number of crawler.close() calls made
    result,           \* the result dict
    global_seen_jobs, \* self.global_seen_jobs
    all_pages,        \* all_pages
    page_i,           \* index of the list page being fetched (i of line 231)
    skipped,          \* indexes of the list pages whose fetch returned None
    all_jobs_raw,     \* all_jobs_raw
    job_i,            \* index into all_jobs_raw of the step 3 loop
    perfect_jobs,     \* perfect_jobs
    faults,           \* failed fetch attempts so far
    rpc,              \* position of scrape_with_retry
    attempt,          \* attempt of scrape_with_retry
    rres,             \* what scrape_with_retry returns: "ok" or "none"
    rlog,             \* the arun calls and sleeps of the current scrape_with_retry
    inflight,         \* crawler.arun calls awaited and not yet back
    work,             \* scrape_with_retry calls for list and detail pages, arun calls
    pgIn,             \* detect_pagination: the list page
    pgOut,            \* detect_pagination: the returned page_urls
    pgDone,           \* detect_pagination has returned
    locIn,            \* clean_location: text and title
    locOut,           \* clean_location: the returned dict
    locDone,          \* clean_location has returned
    mailIn,           \* extract_emails: the matches of the pattern, in document order
    contact_information,  \* result['contact_information']
    mailDone,         \* lines 222-224 have run
    s_self,           \* two calls: the scraper object each call is made on
    s_site,           \* two calls: the site each call scrapes
    s_pc,             \* two calls: where each call is suspended
    s_page_i,         \* two calls: the list page each call is at
    s_all_jobs_raw,   \* two calls: all_jobs_raw of each call
    s_job_i,          \* two calls: the candidate each call is at
    s_perfect_jobs,   \* two calls: perfect_jobs of each call
    seen_of           \* self.global_seen_jobs of each scraper object

retryVars == <<rpc, attempt, rres, rlog>>
crawlVars == <<site, pc, started, closed, result, global_seen_jobs, all_pages,
               page_i, skipped, all_jobs_raw, job_i, perfect_jobs>>
mainVars  == <<crawlVars, faults, retryVars, inflight, work>>
pagVars   == <<pgIn, pgOut, pgDone>>
locVars   == <<locIn, locOut, locDone>>
mailVars  == <<mailIn, contact_information, mailDone>>
twoVars   == <<s_self, s_site, s_pc, s_page_i, s_all_jobs_raw, s_job_i,
               s_perfect_jobs, seen_of>>
sideVars  == <<pagVars, locVars, mailVars, twoVars>>
vars      == <<mainVars, sideVars>>

\* the key is not in the dict
Absent == 0 - 1

NoDocument == [scrape_status |-> "none"]

\* the dict of lines 194-205
InitialResult ==
    [scrape_status |-> "success", error |-> "", jobs |-> << >>,
     total_jobs_found |-> 0, jobs_successfully_parsed |-> 0,
     pages_scraped |-> 0, unique_jobs |-> Absent]

NoWork == [list |-> 0, detail |-> 0, attempts |-> 0]

\* one more scrape_with_retry call, for a list page or for a detail page
ListCall(w) == [w EXCEPT !.list = @ + 1]

DetailCall(w) == [w EXCEPT !.detail = @ + 1]

\* line 202: contact_information before any email is found; << >> is ""
NoContact == [privacy_email |-> << >>, accommodation_email |-> << >>]

\* the two concurrent calls and the scraper objects they may be made on
Sessions == {1, 2}

Objects == {1, 2}

\* no dict was returned yet
NoLocation == [city |-> << >>, state |-> "None", country |-> ""]

EmptySoup == [next |-> [k \in 1..NumNextSelectors |-> NoElement], numbered |-> << >>]

\* the state before scrape_single_url is called on a site; no
\* detect_pagination call of its own is under way
Init ==
    /\ site \in Sites
    /\ pc = "start"
    /\ started = 0
    /\ closed = 0
    /\ result = NoDocument
    /\ global_seen_jobs = {}
    /\ all_pages = << >>
    /\ page_i = 0
    /\ skipped = {}
    /\ all_jobs_raw = << >>
    /\ job_i = 0
    /\ perfect_jobs = << >>
    /\ faults = 0
    /\ rpc = "idle"
    /\ attempt = 0
    /\ rres = "none"
    /\ rlog = << >>
    /\ inflight = 0
    /\ work = NoWork
    /\ pgIn = [soup |-> EmptySoup, base_url |-> 0]
    /\ pgOut = << >>
    /\ pgDone = FALSE
    /\ locIn = [text |-> << >>, title |-> << >>]
    /\ locOut = NoLocation
    /\ locDone = FALSE
    /\ mailIn = << >>
    /\ contact_information = NoContact
    /\ mailDone = FALSE
    /\ s_self = [s \in Sessions |-> 1]
    /\ s_site = [s \in Sessions |-> <<"E">>]
    /\ s_pc = [s \in Sessions |-> "idle"]
    /\ s_page_i = [s \in Sessions |-> 0]
    /\ s_all_jobs_raw = [s \in Sessions |-> << >>]
    /\ s_job_i = [s \in Sessions |-> 0]
    /\ s_perfect_jobs = [s \in Sessions |-> << >>]
    /\ seen_of = [o \in Objects |-> {}]

\* ------------------------------------------------------ scrape_with_retry
\* the call of scrape_with_retry: the loop starts with attempt 0
CallRetry ==
    /\ rpc' = "arun"
    /\ attempt' = 0
    /\ rres' = "none"
    /\ rlog' = << >>

\* the for loop goes to its next attempt, or ends and None is returned
NextAttempt ==
    /\ attempt' = attempt + 1
    /\ rpc' = IF attempt + 1 < max_retries THEN "arun" ELSE "ret"

InRetry == pc \in {"first", "page", "detail"}

\* line 343: crawler.arun is called and awaited
ArunIssue ==
    /\ InRetry /\ rpc = "arun"
    /\ rpc' = "wait"
    /\ inflight' = inflight + 1
    /\ work' = [work EXCEPT !.attempts = @ + 1]
    /\ UNCHANGED <<sideVars, attempt, rres, rlog, faults, crawlVars>>

\* crawler.arun returns a successful result: it is returned
ArunSucceeds ==
    /\ InRetry /\ rpc = "wait"
    /\ inflight' = inflight - 1
    /\ rlog' = Append(rlog, [ev |-> "arun", out |-> "ok", n |-> attempt])
    /\ rres' = "ok"
    /\ rpc' = "ret"
    /\ UNCHANGED <<sideVars, work, attempt, faults, crawlVars>>

\* crawler.arun returns None or an unsuccessful result: back off
ArunUnsuccessful ==
    /\ InRetry /\ rpc = "wait"
    /\ inflight' = inflight - 1
    /\ faults < MaxFaults
    /\ faults' = faults + 1
    /\ rlog' = Append(rlog, [ev |-> "arun", out |-> "bad", n |-> attempt])
    /\ rpc' = "sleep"
    /\ UNCHANGED <<sideVars, work, attempt, rres, crawlVars>>

\* crawler.arun raises: the bare except swallows it, next attempt at once
ArunRaisesStillPending ==
    /\ InRetry /\ rpc = "wait"
    /\ inflight' = inflight
    /\ faults < MaxFaults
    /\ faults' = faults + 1
    /\ rlog' = Append(rlog, [ev |-> "arun", out |-> "exc", n |-> attempt])
    /\ NextAttempt
    /\ UNCHANGED <<sideVars, work, rres, crawlVars>>

ArunRaises ==
    /\ InRetry /\ rpc = "wait"
    /\ inflight' = inflight - 1
    /\ faults < MaxFaults
    /\ faults' = faults + 1
    /\ rlog' = Append(rlog, [ev |-> "arun", out |-> "exc", n |-> attempt])
    /\ NextAttempt
    /\ UNCHANGED <<sideVars, work, rres, crawlVars>>

\* asyncio.sleep(2 ** attempt) after an unsuccessful result
Backoff ==
    /\ InRetry /\ rpc = "sleep"
    /\ rlog' = Append(rlog, [ev |-> "sleep", out |-> "", n |-> Pow2(attempt)])
    /\ NextAttempt
    /\ UNCHANGED <<sideVars, rres, faults, crawlVars, inflight, work>>

\* ------------------------------------------------------ scrape_single_url
\* except Exception as e: the status and the message are set
CaughtWithJobs(res) ==
    [res EXCEPT !.scrape_status = "error", !.error = "exception",
                !.jobs = perfect_jobs,
                !.jobs_successfully_parsed = Len(perfect_jobs)]

Caught(res) == [res EXCEPT !.scrape_status = "error", !.error = "exception"]

\* the early return of line 213
FirstPageFailed(res) == [res EXCEPT !.scrape_status = "failed"]

\* line 246: the candidate is passed over
ShouldSkipSeenOnly(job_hash, seen, accepted) == job_hash \in seen

ShouldSkipCapOnly(job_hash, seen, accepted) == Len(accepted) >= MAX_JOBS

ShouldSkip(job_hash, seen, accepted) ==
    job_hash \in seen \/ Len(accepted) >= MAX_JOBS

\* lines 251-256: the text the description fields are made from, as the
\* pair of its origin and the job URL it is about
DetailTextNoFallback(job_data, fetched) ==
    IF fetched
    THEN IF HasMain(job_data.url)
         THEN [src |-> "main", of |-> job_data.url]
         ELSE [src |-> "html", of |-> job_data.url]
    ELSE [src |-> "empty", of |-> job_data.url]

DetailText(job_data, fetched) ==
    IF fetched
    THEN IF HasMain(job_data.url)
         THEN [src |-> "main", of |-> job_data.url]
         ELSE [src |-> "html", of |-> job_data.url]
    ELSE [src |-> "context", of |-> job_data.url]

\* lines 261-282; titles of the model are at most 100 characters long
PerfectJob(job_data, job_hash, fetched) ==
    [title |-> job_data.title,
     apply_url |-> job_data.url,
     job_hash |-> job_hash,
     context |-> job_data.context,
     detail_text |-> DetailText(job_data, fetched)]

\* lines 291-299
AssembleRawCount(res, perfect, raw, pages) ==
    [res EXCEPT !.jobs = Prefix(perfect, MAX_JOBS),
                !.total_jobs_found = Len(raw),
                !.jobs_successfully_parsed = Len(raw),
                !.pages_scraped = Len(pages),
                !.unique_jobs = Len(Prefix(perfect, MAX_JOBS))]

Assemble(res, perfect, raw, pages) ==
    [res EXCEPT !.jobs = Prefix(perfect, MAX_JOBS),
                !.total_jobs_found = Len(raw),
                !.jobs_successfully_parsed = Len(Prefix(perfect, MAX_JOBS)),
                !.pages_scraped = Len(pages),
                !.unique_jobs = Len(Prefix(perfect, MAX_JOBS))]

\* lines 191-210: the crawler is made and started, the result dict set up,
\* the seen set cleared and the first page asked for; an exception of
\* crawler.start() is outside the try and goes to the caller
CrawlerStart ==
    /\ pc = "start"
    /\ \E ok \in BOOLEAN :
          IF ok
          THEN /\ started' = started + 1
               /\ result' = InitialResult
               /\ global_seen_jobs' = {}
               /\ pc' = "first"
               /\ CallRetry
               /\ work' = ListCall(work)
          ELSE /\ pc' = "raised"
               /\ UNCHANGED <<started, result, global_seen_jobs, retryVars, work>>
    /\ UNCHANGED <<sideVars, inflight, site, closed, all_pages, page_i, skipped, all_jobs_raw,
                   job_i, perfect_jobs, faults>>

\* lines 211-233: the first page came back
FirstPageReturn ==
    /\ pc = "first" /\ rpc = "ret"
    /\ IF rres = "none"
       THEN /\ result' = FirstPageFailed(result)
            /\ pc' = "finally"
            /\ rpc' = "idle"
            /\ UNCHANGED <<all_pages, page_i, attempt, rres, rlog, work>>
       ELSE \E raises \in BOOLEAN :
              IF raises
              THEN /\ result' = Caught(result)
                   /\ pc' = "finally"
                   /\ rpc' = "idle"
                   /\ UNCHANGED <<all_pages, page_i, attempt, rres, rlog, work>>
              ELSE /\ all_pages' = DetectPagination(FirstSoup(site), 0)
                   /\ page_i' = 1
                   /\ pc' = "page"
                   /\ CallRetry
                   /\ work' = ListCall(work)
                   /\ UNCHANGED result
    /\ UNCHANGED <<sideVars, inflight, site, started, closed, global_seen_jobs, skipped,
                   all_jobs_raw, job_i, perfect_jobs, faults>>

\* lines 234-238: a list page came back, or did not
ListPageReturnFatal ==
    /\ pc = "page" /\ rpc = "ret"
    /\ rpc' = "idle"
    /\ IF rres = "none"
       THEN /\ result' = FirstPageFailed(result)
            /\ pc' = "finally"
            /\ UNCHANGED <<skipped, all_jobs_raw>>
       ELSE \E raises \in BOOLEAN :
              IF raises
              THEN /\ result' = Caught(result)
                   /\ pc' = "finally"
                   /\ UNCHANGED <<skipped, all_jobs_raw>>
              ELSE /\ all_jobs_raw' = all_jobs_raw \o
                        FindUniversalJobs(PageContent(site, all_pages[page_i]))
                   /\ pc' = "pagesleep"
                   /\ UNCHANGED <<result, skipped>>
    /\ UNCHANGED <<sideVars, inflight, work, site, started, closed, global_seen_jobs, all_pages, page_i,
                   job_i, perfect_jobs, faults, attempt, rres, rlog>>

ListPageReturn ==
    /\ pc = "page" /\ rpc = "ret"
    /\ rpc' = "idle"
    /\ IF rres = "none"
       THEN /\ skipped' = skipped \cup {page_i}
            /\ pc' = "pagesleep"
            /\ UNCHANGED <<result, all_jobs_raw>>
       ELSE \E raises \in BOOLEAN :
              IF raises
              THEN /\ result' = Caught(result)
                   /\ pc' = "finally"
                   /\ UNCHANGED <<skipped, all_jobs_raw>>
              ELSE /\ all_jobs_raw' = all_jobs_raw \o
                        FindUniversalJobs(PageContent(site, all_pages[page_i]))
                   /\ pc' = "pagesleep"
                   /\ UNCHANGED <<result, skipped>>
    /\ UNCHANGED <<sideVars, inflight, work, site, started, closed, global_seen_jobs, all_pages, page_i,
                   job_i, perfect_jobs, faults, attempt, rres, rlog>>

\* line 238, then the next list page or the start of step 3
PageSleep ==
    /\ pc = "pagesleep"
    /\ IF page_i < Len(all_pages)
       THEN /\ page_i' = page_i + 1
            /\ pc' = "page"
            /\ CallRetry
            /\ work' = ListCall(work)
            /\ UNCHANGED <<job_i, perfect_jobs>>
       ELSE /\ perfect_jobs' = << >>
            /\ job_i' = 1
            /\ pc' = "dedup"
            /\ UNCHANGED <<page_i, retryVars, work>>
    /\ UNCHANGED <<sideVars, inflight, site, started, closed, result, global_seen_jobs, all_pages,
                   skipped, all_jobs_raw, faults>>

\* the hash of the candidate the step 3 loop is at
CurrentHash == JobHash(all_jobs_raw[job_i].title, all_jobs_raw[job_i].url)

\* lines 246-247: continue
DedupReject ==
    /\ pc = "dedup" /\ job_i <= Len(all_jobs_raw)
    /\ ShouldSkip(CurrentHash, global_seen_jobs, perfect_jobs)
    /\ job_i' = job_i + 1
    /\ UNCHANGED <<sideVars, inflight, work, site, pc, started, closed, result, global_seen_jobs,
                   all_pages, page_i, skipped, all_jobs_raw, perfect_jobs,
                   faults, retryVars>>

\* lines 248-250: the hash is recorded and the detail page asked for
DedupAcceptNoRecord ==
    /\ pc = "dedup" /\ job_i <= Len(all_jobs_raw)
    /\ ~ShouldSkip(CurrentHash, global_seen_jobs, perfect_jobs)
    /\ global_seen_jobs' = global_seen_jobs
    /\ pc' = "detail"
    /\ CallRetry
    /\ work' = DetailCall(work)
    /\ UNCHANGED <<sideVars, inflight, site, started, closed, result, all_pages, page_i, skipped,
                   all_jobs_raw, job_i, perfect_jobs, faults>>

DedupAccept ==
    /\ pc = "dedup" /\ job_i <= Len(all_jobs_raw)
    /\ ~ShouldSkip(CurrentHash, global_seen_jobs, perfect_jobs)
    /\ global_seen_jobs' = global_seen_jobs \cup {CurrentHash}
    /\ pc' = "detail"
    /\ CallRetry
    /\ work' = DetailCall(work)
    /\ UNCHANGED <<sideVars, inflight, site, started, closed, result, all_pages, page_i, skipped,
                   all_jobs_raw, job_i, perfect_jobs, faults>>

\* lines 251-288, and lines 291-299 when the loop breaks
DetailReturn ==
    /\ pc = "detail" /\ rpc = "ret"
    /\ rpc' = "idle"
    /\ \E raises \in BOOLEAN :
          IF raises /\ rres = "ok"
          THEN /\ result' = Caught(result)
               /\ pc' = "finally"
               /\ UNCHANGED <<perfect_jobs, job_i>>
          ELSE LET job == PerfectJob(all_jobs_raw[job_i], CurrentHash, rres = "ok")
                   jobs == Append(perfect_jobs, job)
               IN  /\ ~raises
                   /\ perfect_jobs' = jobs
                   /\ IF Len(jobs) >= MAX_JOBS
                      THEN /\ result' = Assemble(result, jobs, all_jobs_raw, all_pages)
                           /\ pc' = "finally"
                           /\ UNCHANGED job_i
                      ELSE /\ job_i' = job_i + 1
                           /\ pc' = "dedup"
                           /\ UNCHANGED result
    /\ UNCHANGED <<sideVars, inflight, work, site, started, closed, global_seen_jobs, all_pages, page_i,
                   skipped, all_jobs_raw, faults, attempt, rres, rlog>>

\* the step 3 loop is over: lines 291-299
LoopEnd ==
    /\ pc = "dedup" /\ job_i > Len(all_jobs_raw)
    /\ result' = Assemble(result, perfect_jobs, all_jobs_raw, all_pages)
    /\ pc' = "finally"
    /\ UNCHANGED <<sideVars, inflight, work, site, started, closed, global_seen_jobs, all_pages, page_i,
                   skipped, all_jobs_raw, job_i, perfect_jobs, faults, retryVars>>

\* lines 304-307: crawler.close(), then the result is returned, unless
\* close raises
CrawlerCloseOnSuccessOnly ==
    /\ pc = "finally"
    /\ closed' = IF result.scrape_status = "success" THEN closed + 1 ELSE closed
    /\ \E ok \in BOOLEAN : pc' = IF ok THEN "returned" ELSE "raised"
    /\ UNCHANGED <<sideVars, inflight, work, site, started, result, global_seen_jobs, all_pages, page_i,
                   skipped, all_jobs_raw, job_i, perfect_jobs, faults, retryVars>>

CrawlerClose ==
    /\ pc = "finally"
    /\ closed' = closed + 1
    /\ \E ok \in BOOLEAN : pc' = IF ok THEN "returned" ELSE "raised"
    /\ UNCHANGED <<sideVars, inflight, work, site, started, result, global_seen_jobs, all_pages, page_i,
                   skipped, all_jobs_raw, job_i, perfect_jobs, faults, retryVars>>

Next ==
    \/ CrawlerStart
    \/ ArunIssue
    \/ ArunSucceeds
    \/ ArunUnsuccessful
    \/ ArunRaises
    \/ Backoff
    \/ FirstPageReturn
    \/ ListPageReturn
    \/ PageSleep
    \/ DedupReject
    \/ DedupAccept
    \/ DetailReturn
    \/ LoopEnd
    \/ CrawlerClose

Spec == Init /\ [][Next]_vars

\* every awaited call (start, arun, sleep, close) comes back and the
\* coroutine then runs on to its next await
FairSpec == Init /\ [][Next]_vars /\ WF_vars(Next)

\* ---------------------------------------- detect_pagination on its own
\* what a "next" selector finds: nothing, an element without href, a link
\* to page 1, or a link to a page of its own
NextElement(k, c) ==
    CASE c = 0 -> NoElement
      [] c = 1 -> [match |-> TRUE, has_href |-> FALSE, target |-> 0, paged |-> FALSE]
      [] c = 2 -> Link(1, FALSE)
      [] OTHER -> Link(100 + k, FALSE)

\* the elements of .pagination a: n links, all to different pages, or to
\* four pages over and over, or every third without a page parameter
NumberedLinks(n, p) ==
    [i \in 1..n |->
        CASE p = 1 -> Link(i, TRUE)
          [] p = 2 -> Link(i % 4, TRUE)
          [] OTHER -> Link(i, i % 3 # 0)]

PagInputs ==
    {[soup |-> [next |-> [k \in 1..NumNextSelectors |-> NextElement(k, c[k])],
                numbered |-> NumberedLinks(n, p)],
      base_url |-> b] :
        c \in {f \in [1..NumNextSelectors -> 0..3] : \A k \in 4..NumNextSelectors : f[k] \in {0, 3}},
        n \in 0..MaxNumbered,
        p \in 1..3, b \in {0, 1}}

\* a list page and a base URL are given; no scrape is under way
InitPag ==
    /\ pgIn \in PagInputs
    /\ pgOut = << >>
    /\ pgDone = FALSE
    /\ site = <<"E">>
    /\ pc = "idle"
    /\ started = 0
    /\ closed = 0
    /\ result = NoDocument
    /\ global_seen_jobs = {}
    /\ all_pages = << >>
    /\ page_i = 0
    /\ skipped = {}
    /\ all_jobs_raw = << >>
    /\ job_i = 0
    /\ perfect_jobs = << >>
    /\ faults = 0
    /\ rpc = "idle"
    /\ attempt = 0
    /\ rres = "none"
    /\ rlog = << >>
    /\ inflight = 0
    /\ work = NoWork
    /\ locIn = [text |-> << >>, title |-> << >>]
    /\ locOut = NoLocation
    /\ locDone = FALSE
    /\ mailIn = << >>
    /\ contact_information = NoContact
    /\ mailDone = FALSE
    /\ s_self = [s \in Sessions |-> 1]
    /\ s_site = [s \in Sessions |-> <<"E">>]
    /\ s_pc = [s \in Sessions |-> "idle"]
    /\ s_page_i = [s \in Sessions |-> 0]
    /\ s_all_jobs_raw = [s \in Sessions |-> << >>]
    /\ s_job_i = [s \in Sessions |-> 0]
    /\ s_perfect_jobs = [s \in Sessions |-> << >>]
    /\ seen_of = [o \in Objects |-> {}]

DetectPaginationCall ==
    /\ ~pgDone
    /\ pgOut' = DetectPagination(pgIn.soup, pgIn.base_url)
    /\ pgDone' = TRUE
    /\ UNCHANGED <<pgIn, mainVars, locVars, mailVars, twoVars>>

NextPag == DetectPaginationCall

SpecPag == InitPag /\ [][NextPag]_vars

\* -------------------------------------------- clean_location on its own
LocTitles == {<<"B", "i", "z", "O", "p", "s", " ", "E", "n", "g", "i", "n", "e", "e", "r", " ", "I">>, <<"D", "a", "t", "a", " ", "A", "n", "a", "l", "y", "s", "t">>}

LocWords == {<<"P", "u", "n", "e">>,
             <<"I", "n", "d", "i", "a">>,
             <<"O", " ", "F", "a", "l", "l", "o", "n">>,
             <<"O", "F", "a", "l", "l", "o", "n">>,
             <<"L", "o", "c", "a", "t", "i", "o", "n", ":">>,
             <<"i", "n">>,
             <<"R", "e", "m", "o", "t", "e">>,
             <<"4", "1", "1", "0", "0", "6">>,
             <<"6", "3", "3", "6", "8">>,
             <<"M", "u", "m", "b", "a", "i">>}

RECURSIVE JoinWords(_)
JoinWords(ws) ==
    IF ws = << >> THEN << >> ELSE <<" ">> \o ws[1] \o JoinWords(Tail(ws))

\* the text of the element around a job link: its title, then some words
LocInputs ==
    {[text |-> t \o JoinWords(ws), title |-> t] :
        t \in LocTitles, ws \in UNION {[1..n -> LocWords] : n \in 0..MaxWords}}

\* a context text and a title are given; no scrape is under way
InitLoc ==
    /\ locIn \in LocInputs
    /\ locOut = NoLocation
    /\ locDone = FALSE
    /\ pgIn = [soup |-> EmptySoup, base_url |-> 0]
    /\ pgOut = << >>
    /\ pgDone = FALSE
    /\ site = <<"E">>
    /\ pc = "idle"
    /\ started = 0
    /\ closed = 0
    /\ result = NoDocument
    /\ global_seen_jobs = {}
    /\ all_pages = << >>
    /\ page_i = 0
    /\ skipped = {}
    /\ all_jobs_raw = << >>
    /\ job_i = 0
    /\ perfect_jobs = << >>
    /\ faults = 0
    /\ rpc = "idle"
    /\ attempt = 0
    /\ rres = "none"
    /\ rlog = << >>
    /\ inflight = 0
    /\ work = NoWork
    /\ mailIn = << >>
    /\ contact_information = NoContact
    /\ mailDone = FALSE
    /\ s_self = [s \in Sessions |-> 1]
    /\ s_site = [s \in Sessions |-> <<"E">>]
    /\ s_pc = [s \in Sessions |-> "idle"]
    /\ s_page_i = [s \in Sessions |-> 0]
    /\ s_all_jobs_raw = [s \in Sessions |-> << >>]
    /\ s_job_i = [s \in Sessions |-> 0]
    /\ s_perfect_jobs = [s \in Sessions |-> << >>]
    /\ seen_of = [o \in Objects |-> {}]

CleanLocationCall ==
    /\ ~locDone
    /\ locOut' = CleanLocation(locIn.text, locIn.title)
    /\ locDone' = TRUE
    /\ UNCHANGED <<locIn, mainVars, pagVars, mailVars, twoVars>>

NextLoc == CleanLocationCall

SpecLoc == InitLoc /\ [][NextLoc]_vars

\* ------------------------------------------- the contact emails on their own
WExample == <<"e", "x", "a", "m", "p", "l", "e">>

MailAddrs == {<<"h", "r", "@", "a", ".", "i", "o">>,
              <<"H", "R", "@", "a", ".", "i", "o">>,
              <<"j", "o", "b", "s", "@", "a", ".", "i", "o">>,
              <<"x", "@", "e", "x", "a", "m", "p", "l", "e", ".", "c", "o", "m">>,
              <<"p", "r", "@", "b", ".", "i", "n">>}

\* line 337: what re.findall returns for a page, in document order
MailInputs == UNION {[1..n -> MailAddrs] : n \in 0..MaxMatches}

\* line 338: the set of the lowercased matches without 'example'
KeptEmails(matches) ==
    {ToLower(matches[i]) : i \in {j \in 1..Len(matches) :
                                     ~ContainsCI(ToLower(matches[j]), WExample)}}

\* line 338: list(set): the orders in which a set may be iterated (the
\* iteration order of a set of str follows the per-process string hash)
ListOfSet(S) == {q \in [1..Cardinality(S) -> S] : Range(q) = S}

\* line 224
ContactOf(emails) ==
    [privacy_email |-> emails[1],
     accommodation_email |-> IF Len(emails) > 1 THEN emails[2] ELSE << >>]

InitMail ==
    /\ mailIn \in MailInputs
    /\ contact_information = NoContact
    /\ mailDone = FALSE
    /\ pgIn = [soup |-> EmptySoup, base_url |-> 0]
    /\ pgOut = << >>
    /\ pgDone = FALSE
    /\ locIn = [text |-> << >>, title |-> << >>]
    /\ locOut = NoLocation
    /\ locDone = FALSE
    /\ s_self = [s \in Sessions |-> 1]
    /\ s_site = [s \in Sessions |-> <<"E">>]
    /\ s_pc = [s \in Sessions |-> "idle"]
    /\ s_page_i = [s \in Sessions |-> 0]
    /\ s_all_jobs_raw = [s \in Sessions |-> << >>]
    /\ s_job_i = [s \in Sessions |-> 0]
    /\ s_perfect_jobs = [s \in Sessions |-> << >>]
    /\ seen_of = [o \in Objects |-> {}]
    /\ site = <<"E">>
    /\ pc = "idle"
    /\ started = 0
    /\ closed = 0
    /\ result = NoDocument
    /\ global_seen_jobs = {}
    /\ all_pages = << >>
    /\ page_i = 0
    /\ skipped = {}
    /\ all_jobs_raw = << >>
    /\ job_i = 0
    /\ perfect_jobs = << >>
    /\ faults = 0
    /\ rpc = "idle"
    /\ attempt = 0
    /\ rres = "none"
    /\ rlog = << >>
    /\ inflight = 0
    /\ work = NoWork

\* lines 222-224 with extract_emails, lines 336-338
ExtractEmailsCall ==
    /\ ~mailDone
    /\ \E q \in ListOfSet(KeptEmails(mailIn)) :
          LET emails == Prefix(q, 2)
          IN  contact_information' =
                  IF emails # << >> THEN ContactOf(emails) ELSE contact_information
    /\ mailDone' = TRUE
    /\ UNCHANGED <<mailIn, mainVars, pagVars, locVars, twoVars>>

NextMail == ExtractEmailsCall

SpecMail == InitMail /\ [][NextMail]_vars

\* -------------------------------- two scrape_single_url calls interleaved
\* the sites the two calls scrape
TwoSites == {<<"A">>, <<"A", "M">>, <<"A", "B">>}

\* line 227: the list pages of the site of call s
PagesOf(s) == DetectPagination(FirstSoup(s_site[s]), 0)

\* lines 244-247: the first candidate from place i on that is not skipped,
\* or Len(raw) + 1 when none is left
RECURSIVE Scan(_, _, _, _)
Scan(raw, i, seen, accepted) ==
    IF i > Len(raw) THEN i
    ELSE IF ShouldSkip(JobHash(raw[i].title, raw[i].url), seen, accepted)
    THEN Scan(raw, i + 1, seen, accepted)
    ELSE i

\* lines 243-250 run from candidate i of call s up to the next suspension:
\* the detail fetch of the next kept candidate, or the end of the loop
ScanOn(s, i, accepted) ==
    LET raw == s_all_jobs_raw[s]
        o   == s_self[s]
        j   == Scan(raw, i, seen_of[o], accepted)
    IN  /\ s_job_i' = [s_job_i EXCEPT ![s] = j]
        /\ IF j > Len(raw)
           THEN /\ s_pc' = [s_pc EXCEPT ![s] = "done"]
                /\ UNCHANGED seen_of
           ELSE /\ s_pc' = [s_pc EXCEPT ![s] = "detail"]
                /\ seen_of' = [seen_of EXCEPT
                                  ![o] = @ \cup {JobHash(raw[j].title, raw[j].url)}]

\* two calls are about to be made, on one scraper object or on two
InitTwo ==
    /\ s_self \in {f \in [Sessions -> Objects] : f[1] = 1}
    /\ s_site \in [Sessions -> TwoSites]
    /\ s_pc = [s \in Sessions |-> "new"]
    /\ s_page_i = [s \in Sessions |-> 0]
    /\ s_all_jobs_raw = [s \in Sessions |-> << >>]
    /\ s_job_i = [s \in Sessions |-> 0]
    /\ s_perfect_jobs = [s \in Sessions |-> << >>]
    /\ seen_of = [o \in Objects |-> {}]
    /\ pgIn = [soup |-> EmptySoup, base_url |-> 0]
    /\ pgOut = << >>
    /\ pgDone = FALSE
    /\ locIn = [text |-> << >>, title |-> << >>]
    /\ locOut = NoLocation
    /\ locDone = FALSE
    /\ mailIn = << >>
    /\ contact_information = NoContact
    /\ mailDone = FALSE
    /\ site = <<"E">>
    /\ pc = "idle"
    /\ started = 0
    /\ closed = 0
    /\ result = NoDocument
    /\ global_seen_jobs = {}
    /\ all_pages = << >>
    /\ page_i = 0
    /\ skipped = {}
    /\ all_jobs_raw = << >>
    /\ job_i = 0
    /\ perfect_jobs = << >>
    /\ faults = 0
    /\ rpc = "idle"
    /\ attempt = 0
    /\ rres = "none"
    /\ rlog = << >>
    /\ inflight = 0
    /\ work = NoWork

\* lines 192-210: crawler.start() came back; the registry of the object is
\* cleared and the first page asked for
TwoStart ==
    \E s \in Sessions :
        /\ s_pc[s] = "new"
        /\ seen_of' = [seen_of EXCEPT ![s_self[s]] = {}]
        /\ s_pc' = [s_pc EXCEPT ![s] = "first"]
        /\ UNCHANGED <<s_self, s_site, s_page_i, s_all_jobs_raw, s_job_i, s_perfect_jobs>>
        /\ UNCHANGED <<mainVars, pagVars, locVars, mailVars>>

\* lines 211-233: the first page came back and list page 1 is asked for
TwoFirstReturn ==
    \E s \in Sessions :
        /\ s_pc[s] = "first"
        /\ s_page_i' = [s_page_i EXCEPT ![s] = 1]
        /\ s_pc' = [s_pc EXCEPT ![s] = "page"]
        /\ UNCHANGED <<s_self, s_site, s_all_jobs_raw, s_job_i, s_perfect_jobs, seen_of>>
        /\ UNCHANGED <<mainVars, pagVars, locVars, mailVars>>

\* lines 234-238: a list page came back and the call sleeps
TwoPageReturn ==
    \E s \in Sessions :
        /\ s_pc[s] = "page"
        /\ s_all_jobs_raw' = [s_all_jobs_raw EXCEPT ![s] = @ \o
              FindUniversalJobs(PageContent(s_site[s], PagesOf(s)[s_page_i[s]]))]
        /\ s_pc' = [s_pc EXCEPT ![s] = "pagesleep"]
        /\ UNCHANGED <<s_self, s_site, s_page_i, s_job_i, s_perfect_jobs, seen_of>>
        /\ UNCHANGED <<mainVars, pagVars, locVars, mailVars>>

\* line 238 is over: the next list page, or step 3 up to its first detail
\* fetch
TwoPageSleep ==
    \E s \in Sessions :
        /\ s_pc[s] = "pagesleep"
        /\ IF s_page_i[s] < Len(PagesOf(s))
           THEN /\ s_page_i' = [s_page_i EXCEPT ![s] = @ + 1]
                /\ s_pc' = [s_pc EXCEPT ![s] = "page"]
                /\ UNCHANGED <<s_job_i, seen_of>>
           ELSE /\ ScanOn(s, 1, << >>)
                /\ UNCHANGED s_page_i
        /\ UNCHANGED <<s_self, s_site, s_all_jobs_raw, s_perfect_jobs>>
        /\ UNCHANGED <<mainVars, pagVars, locVars, mailVars>>

\* lines 251-288: the detail page came back, the job is appended, and the
\* loop breaks at MAX_JOBS or goes on to its next detail fetch
TwoDetailReturn ==
    \E s \in Sessions :
        /\ s_pc[s] = "detail"
        /\ LET raw  == s_all_jobs_raw[s]
               i    == s_job_i[s]
               job  == PerfectJob(raw[i], JobHash(raw[i].title, raw[i].url), TRUE)
               jobs == Append(s_perfect_jobs[s], job)
           IN  /\ s_perfect_jobs' = [s_perfect_jobs EXCEPT ![s] = jobs]
               /\ IF Len(jobs) >= MAX_JOBS
                  THEN /\ s_pc' = [s_pc EXCEPT ![s] = "done"]
                       /\ UNCHANGED <<s_job_i, seen_of>>
                  ELSE ScanOn(s, i + 1, jobs)
        /\ UNCHANGED <<s_self, s_site, s_page_i, s_all_jobs_raw>>
        /\ UNCHANGED <<mainVars, pagVars, locVars, mailVars>>

NextTwo ==
    \/ TwoStart
    \/ TwoFirstReturn
    \/ TwoPageReturn
    \/ TwoPageSleep
    \/ TwoDetailReturn

SpecTwo == InitTwo /\ [][NextTwo]_vars

\* ------------------------------------------------------------- properties
Returned == pc = "returned"

\* the title and URL of a candidate or of a job record, joined as hashed
DedupKey(title, url) == title \o <<Sep>> \o url

\* C1: every result document that scrape_single_url returns holds between
\* 0 and 15 jobs, whatever the exit path.
C1_JobsWithinCap ==
    Returned => (Len(result.jobs) >= 0 /\ Len(result.jobs) <= 15)

\* a scrape that found more than 15 candidates has returned 15 jobs
C1_Witness ==
    Returned /\ Len(all_jobs_raw) > 15 /\ Len(result.jobs) = 15

\* C2: no two jobs of a returned document have the same dedup hash of
\* title and URL, so the same title and URL met on two pages give one job.
C2_NoSharedHash ==
    Returned =>
        \A i, j \in 1..Len(result.jobs) :
            i # j => DedupKey(result.jobs[i].title, result.jobs[i].apply_url)
                     # DedupKey(result.jobs[j].title, result.jobs[j].apply_url)

\* the same title and URL were met twice and one job was made of them
C2_Witness ==
    /\ Returned
    /\ \E i, j \in 1..Len(all_jobs_raw) :
          /\ i < j
          /\ all_jobs_raw[i].title = all_jobs_raw[j].title
          /\ all_jobs_raw[i].url = all_jobs_raw[j].url
          /\ Cardinality({n \in 1..Len(result.jobs) :
                            /\ result.jobs[n].title = all_jobs_raw[i].title
                            /\ result.jobs[n].apply_url = all_jobs_raw[i].url}) = 1

\* C3: scrape_single_url never raises to its caller.
C3_NeverRaises == pc # "raised"

\* C4: the crawler is started once and closed once on every path that
\* returns, and is never closed more often than started.
C4_ReleasedOnce ==
    /\ Returned => (started = 1 /\ closed = 1)
    /\ closed <= started
    /\ started <= 1

\* the early return after a failed first page has closed the crawler
C4_Witness ==
    Returned /\ result.scrape_status = "failed" /\ closed = 1

\* the arun calls of a log
Aruns(log) == SelectSeq(log, LAMBDA e : e.ev = "arun")

\* C5: scrape_with_retry makes min(k+1, 3) attempts, k the index from 0 of
\* the first successful one, 3 when none succeeds; then it returns None.
C5_AttemptCount ==
    rpc = "ret" =>
        LET a    == Aruns(rlog)
            succ == {i \in 1..Len(a) : a[i].out = "ok"}
        IN  IF succ # {}
            THEN /\ Len(a) = Min(CHOOSE i \in succ : \A j \in succ : i <= j, 3)
                 /\ rres = "ok"
            ELSE /\ Len(a) = 3
                 /\ rres = "none"

\* three attempts failed, by an exception and by an unsuccessful result
C5_Witness ==
    /\ rpc = "ret" /\ rres = "none"
    /\ \E i, j \in 1..Len(rlog) : rlog[i].out = "exc" /\ rlog[j].out = "bad"

\* C6: in scrape_with_retry a wait of 2^attempt lies between every two
\* attempts that follow each other, and nowhere else.
C6_BackoffBetweenAttempts ==
    rpc = "ret" =>
        LET n == Len(Aruns(rlog))
        IN  /\ Len(rlog) = 2 * n - 1
            /\ \A i \in 1..Len(rlog) :
                  IF i % 2 = 1
                  THEN rlog[i].ev = "arun"
                  ELSE rlog[i].ev = "sleep" /\ rlog[i].n = Pow2((i \div 2) - 1)

\* the URLs the "next" selectors of a page lead to
NextTargets(soup) ==
    {soup.next[k].target : k \in {x \in 1..NumNextSelectors :
                                     soup.next[x].match /\ soup.next[x].has_href}}

\* the places of the numbered links with a page parameter that lead to u
PagedAt(soup, u) ==
    {i \in 1..Len(soup.numbered) :
        /\ soup.numbered[i].has_href /\ soup.numbered[i].paged
        /\ soup.numbered[i].target = u}

FirstOf(S) == CHOOSE i \in S : \A j \in S : i <= j

\* C7: detect_pagination returns at most 15 URLs, none of them twice, the
\* first being the base URL; the URLs of numbered links follow those of
\* the "next" links, in document order, and are collected up to 20 URLs.
C7_PaginationBounded ==
    pgDone =>
        LET soup == pgIn.soup
            nxt  == NextTargets(soup) \cup {pgIn.base_url}
        IN  /\ Len(pgOut) >= 1 /\ Len(pgOut) <= 15
            /\ pgOut[1] = pgIn.base_url
            /\ \A a, b \in 1..Len(pgOut) : a # b => pgOut[a] # pgOut[b]
            /\ Len(CollectPages(soup, pgIn.base_url)) <= 20
            /\ \A b \in 1..Len(pgOut) :
                  pgOut[b] \notin nxt =>
                     /\ PagedAt(soup, pgOut[b]) # {}
                     /\ \A a \in 1..(b - 1) :
                           \/ pgOut[a] \in nxt
                           \/ FirstOf(PagedAt(soup, pgOut[a])) < FirstOf(PagedAt(soup, pgOut[b]))

\* a page with more than 20 different numbered links gave 15 URLs
C7_Witness ==
    /\ pgDone /\ Len(pgOut) = 15
    /\ Len(CollectPages(pgIn.soup, pgIn.base_url)) = 20
    /\ Cardinality({pgIn.soup.numbered[i].target : i \in 1..Len(pgIn.soup.numbered)}) > 20

\* the candidates in the order met: page by page, skipped pages left out
RECURSIVE EncounterUpTo(_)
EncounterUpTo(p) ==
    IF p = 0 THEN << >>
    ELSE EncounterUpTo(p - 1) \o
         (IF p \in skipped THEN << >>
          ELSE FindUniversalJobs(PageContent(site, all_pages[p])))

\* the places of a candidate list whose dedup hash was not met before
FirstSeen(raw) ==
    {i \in 1..Len(raw) :
        \A j \in 1..(i - 1) :
            DedupKey(raw[j].title, raw[j].url) # DedupKey(raw[i].title, raw[i].url)}

\* C8: the jobs of a successful scrape are made of the first 15 candidates
\* with different dedup hashes in the order met, and are in that order;
\* the status stays "success" while candidates are dropped.
C8_FirstSeenWins ==
    /\ pc \in {"dedup", "detail"} => result.scrape_status = "success"
    /\ (Returned /\ result.scrape_status = "success") =>
          LET raw == EncounterUpTo(Len(all_pages))
              K   == FirstSeen(raw)
          IN  /\ Len(result.jobs) = Min(15, Cardinality(K))
              /\ \A n \in 1..Len(result.jobs) :
                    LET i == CHOOSE x \in K : Cardinality({j \in K : j < x}) = n - 1
                    IN  /\ result.jobs[n].title = raw[i].title
                        /\ result.jobs[n].apply_url = raw[i].url

\* a successful scrape dropped a duplicate and candidates beyond the cap
C8_Witness ==
    /\ Returned /\ result.scrape_status = "success"
    /\ Len(result.jobs) = 15
    /\ Cardinality(FirstSeen(all_jobs_raw)) > 15
    /\ Cardinality(FirstSeen(all_jobs_raw)) < Len(all_jobs_raw)

\* C9: in every returned document jobs_successfully_parsed is len(jobs).
C9_ParsedIsLenJobs ==
    Returned => result.jobs_successfully_parsed = Len(result.jobs)

\* a document with jobs, fewer than the candidates found
C9_Witness ==
    /\ Returned
    /\ Len(result.jobs) > 0
    /\ Len(result.jobs) < result.total_jobs_found

RECURSIVE CandidatesUpTo(_)
CandidatesUpTo(p) ==
    IF p = 0 THEN 0
    ELSE CandidatesUpTo(p - 1) + Len(FindUniversalJobs(PageContent(site, all_pages[p])))

\* C10: when every list page was fetched, total_jobs_found is the sum of
\* the candidates of the pages, and len(jobs) = unique_jobs is the smaller
\* of 15 and the number of different (title, url) candidates.
C10_CountsOfFullScrape ==
    (Returned /\ result.scrape_status = "success" /\ skipped = {}) =>
        /\ result.total_jobs_found = CandidatesUpTo(Len(all_pages))
        /\ Len(result.jobs) = result.unique_jobs
        /\ Len(result.jobs) =
              Min(15, Cardinality({<<all_jobs_raw[i].title, all_jobs_raw[i].url>> :
                                      i \in 1..Len(all_jobs_raw)}))

\* C11: a candidate whose detail fetch came back empty-handed after its
\* attempts still gives a job, with the text of its list-page context; the
\* loop goes on and the status stays "success".
C11_DetailFallback ==
    [][(pc = "detail" /\ rpc = "ret" /\ rres = "none") =>
          LET cand == all_jobs_raw[job_i]
              made == perfect_jobs'[Len(perfect_jobs')]
          IN  /\ Len(perfect_jobs') = Len(perfect_jobs) + 1
              /\ made.title = cand.title /\ made.apply_url = cand.url
              /\ made.context = cand.context
              /\ made.detail_text = [src |-> "context", of |-> cand.url]
              /\ result'.scrape_status = "success"
              /\ \/ pc' = "dedup" /\ job_i' = job_i + 1
                 \/ pc' = "finally" /\ Len(perfect_jobs') >= 15]_vars

\* a successful scrape returned a job made from its context, and a later one
C11_Witness ==
    /\ Returned /\ result.scrape_status = "success"
    /\ \E n \in 1..Len(result.jobs) :
          /\ n < Len(result.jobs)
          /\ result.jobs[n].detail_text.src = "context"

C14_OneNextLink ==
    pgDone =>
        LET soup  == pgIn.soup
            found == {k \in 1..NumNextSelectors :
                         soup.next[k].match /\ soup.next[k].has_href}
        IN  \A b \in 2..Len(pgOut) :
               \/ found # {} /\ pgOut[b] = soup.next[FirstOf(found)].target
               \/ PagedAt(soup, pgOut[b]) # {}

\* C15: a job whose detail page has no main-content container is made from
\* its context snippet, fetched or not; one with a container, when fetched,
\* from the container's text.
C15_NoContainerFallback ==
    \A n \in 1..Len(perfect_jobs) :
        LET j == perfect_jobs[n]
        IN  /\ ~HasMain(j.apply_url) => j.detail_text.src = "context"
            /\ HasMain(j.apply_url) => j.detail_text.src \in {"main", "context"}

\* the hashes of the jobs made so far
AcceptedHashes == {perfect_jobs[n].job_hash : n \in 1..Len(perfect_jobs)}

\* C18: the dedup step changes neither the seen set nor the accepted jobs
\* when the hash was seen or 15 jobs are accepted; otherwise it adds that
\* hash and nothing else; between steps the seen set is the set of the
\* hashes of the accepted candidates.
C18_DedupFrame ==
    /\ [](pc = "dedup" => global_seen_jobs = AcceptedHashes)
    /\ [](pc = "detail" => global_seen_jobs = AcceptedHashes \cup
                               {DedupKey(all_jobs_raw[job_i].title, all_jobs_raw[job_i].url)})
    /\ [][(pc = "dedup" /\ job_i <= Len(all_jobs_raw)) =>
            LET h == DedupKey(all_jobs_raw[job_i].title, all_jobs_raw[job_i].url)
            IN  IF h \in global_seen_jobs \/ Len(perfect_jobs) >= 15
                THEN /\ global_seen_jobs' = global_seen_jobs
                     /\ perfect_jobs' = perfect_jobs
                     /\ pc' = "dedup"
                ELSE /\ global_seen_jobs' = global_seen_jobs \cup {h}
                     /\ pc' = "detail" /\ job_i' = job_i]_vars

\* a candidate was rejected as seen and another accepted after it
C18_Witness ==
    /\ pc = "detail"
    /\ \E k \in 1..(job_i - 1) :
          /\ Len(perfect_jobs) < job_i - 1
          /\ \E m \in 1..(k - 1) :
                DedupKey(all_jobs_raw[m].title, all_jobs_raw[m].url)
                = DedupKey(all_jobs_raw[k].title, all_jobs_raw[k].url)

\* C16: at most one crawler.arun call is awaited at any time; a call is made
\* only when none is awaited, none is awaited during a backoff or the pause
\* between pages, and the pause follows each list-page fetch of the loop.
C16_OneFetchInFlight ==
    /\ [](inflight \in {0, 1})
    /\ []((rpc \in {"sleep", "ret", "idle"} \/ pc = "pagesleep") => inflight = 0)
    /\ [][/\ inflight' > inflight => inflight = 0
          /\ (pc = "page" /\ pc' # "page") =>
                \/ pc' = "pagesleep"
                \/ pc' = "finally" /\ result'.scrape_status = "error"]_vars

\* the pause after the second list page, after an attempt that was retried
C16_Witness ==
    /\ pc = "pagesleep" /\ page_i >= 2
    /\ work.attempts > work.list

\* C17: one scrape makes at most 1 + 15 list-page fetches and 15 detail
\* fetches of at most 3 attempts each, 93 attempts at most; a detail fetch
\* is made only for a candidate whose hash is new, 15 at most.
C17_BoundedWork ==
    /\ work.list <= 1 + 15
    /\ work.detail <= 15
    /\ work.attempts <= 3 * (work.list + work.detail)
    /\ work.attempts <= 93
    /\ pc \in {"dedup", "detail"} => work.detail = Cardinality(global_seen_jobs)

\* a site with more than 15 pages was scraped: 16 list and 15 detail fetches
C17_Witness ==
    Returned /\ work.list = 16 /\ work.detail = 15

\* C19: with the title taken out of the context, a context naming Pune gives
\* the Pune location, else one naming O Fallon the O Fallon location, else
\* one naming India the country India, and only one naming none of them
\* the country "Not Specified".
C19_LocationPriority ==
    locDone =>
        LET t == SubLiteral(locIn.text, locIn.title, 1)
        IN  IF IsPune(t)
            THEN locOut = [city |-> WPune, state |-> "Maharashtra", country |-> "India"]
            ELSE IF IsOFallon(t)
            THEN /\ locOut.city = WOFallon
                 /\ locOut.country = "United States of America"
            ELSE IF ContainsCI(t, WIndiaLower)
            THEN locOut.country = "India"
            ELSE locOut.country = "Not Specified"

\* the kept addresses of a page in the order they are found, each once
RECURSIVE InDiscoveryOrder(_)
InDiscoveryOrder(matches) ==
    IF matches = << >> THEN << >>
    ELSE LET before == InDiscoveryOrder(Prefix(matches, Len(matches) - 1))
             e      == ToLower(matches[Len(matches)])
         IN  IF e \in Range(before) \/ ContainsCI(e, WExample)
             THEN before ELSE Append(before, e)

\* C20: privacy_email is the first distinct non-placeholder address of the
\* first page in document order and accommodation_email the second one,
\* empty when there is only one; a page has one assignment.
C20_EmailsInDiscoveryOrder ==
    mailDone =>
        LET found == InDiscoveryOrder(mailIn)
        IN  contact_information =
                IF found = << >> THEN NoContact ELSE ContactOf(Prefix(found, 2))

\* the job hashes a call keeps when it runs alone: the first MAX_JOBS
\* candidates whose dedup hash was not met before, in the order met
AloneHashes(raw) ==
    LET firsts == SelectSeq([i \in 1..Len(raw) |-> i], LAMBDA i : i \in FirstSeen(raw))
        kept   == Prefix(firsts, MAX_JOBS)
    IN  [n \in 1..Len(kept) |-> DedupKey(raw[kept[n]].title, raw[kept[n]].url)]

\* C12: each of two interleaved calls, on one scraper object or on two,
\* ends with the jobs it ends with when run alone, no two of them with the
\* same dedup hash.
C12_SessionsIsolated ==
    \A s \in Sessions :
        s_pc[s] = "done" =>
            LET jobs == s_perfect_jobs[s]
            IN  /\ [n \in 1..Len(jobs) |-> jobs[n].job_hash] = AloneHashes(s_all_jobs_raw[s])
                /\ \A m, n \in 1..Len(jobs) :
                      jobs[m].job_hash = jobs[n].job_hash => m = n

\* C21: pages_scraped of a successful scrape is the number of list pages
\* that were fetched and scanned for candidates; a page whose fetch ran out
\* of attempts is not counted.
C21_PagesScrapedCountsFetched ==
    (Returned /\ result.scrape_status = "success") =>
        result.pages_scraped = Len(all_pages) - Cardinality(skipped)

\* C22: a document with status "failed" or "error" has no jobs and the
\* counters total_jobs_found, jobs_successfully_parsed and pages_scraped at
\* 0, also when jobs were built before the exception; a document with jobs
\* has status "success".
C22_FailureDocumentEmpty ==
    result # NoDocument =>
        /\ result.scrape_status \in {"failed", "error"} =>
              /\ result.jobs = << >>
              /\ result.total_jobs_found = 0
              /\ result.jobs_successfully_parsed = 0
              /\ result.pages_scraped = 0
        /\ result.jobs # << >> => result.scrape_status = "success"

\* a document with status "error" is returned after jobs were built
C22_Witness ==
    /\ Returned
    /\ result.scrape_status = "error"
    /\ Len(perfect_jobs) > 0
    /\ result.jobs = << >>

\* a scrape_with_retry call is under way
RetryPending == rpc \in {"arun", "wait", "sleep"}

\* C23: when every fetch attempt and every sleep comes back, every
\* scrape_single_url call returns a result document and every
\* scrape_with_retry call returns, whatever the fetches do.
C23_ReturnsDocument ==
    /\ <>(pc = "returned")
    /\ [](RetryPending => <>(rpc = "ret"))

\* every call ends, with a document or with the exception of
\* crawler.start() or crawler.close(), and every scrape_with_retry call
\* returns
EndsOrRaises ==
    /\ <>(pc \in {"returned", "raised"})
    /\ [](RetryPending => <>(rpc = "ret"))

====
